---- MODULE Spec2Model ----
(***************************************************************************)
(* Model of tea/commander/ui.py: StatusConsoleFormatter and                *)
(* ConsoleUserInterface.                                                   *)
(*                                                                         *)
(* Text is a sequence of one-character strings, so that str(), the '%'     *)
(* formatting and the literals of the source are computed, not assumed.    *)
(* Formatter objects live in a heap indexed by identity; the instance      *)
(* attributes of the ConsoleUserInterface object are a dictionary keyed by *)
(* attribute name, as in Python.                                           *)
(***************************************************************************)
EXTENDS Integers, Sequences, FiniteSets, TLC

\* ---------------------------------------------------------------- bounds
MaxFormatters == 2      \* formatter objects the caller constructs
MaxCalls == 2           \* calls made on the ConsoleUserInterface instance
MaxInvokes == 2         \* direct invocations of formatter objects

\* ------------------------------------------------------- external names
Green == "green"        \* Color.green
Red == "red"            \* Color.red
Blue == "blue"
Yellow == "yellow"
Colors == {Green, Red, Blue, Yellow}

NL == "\n"

\* ------------------------------------------------------------ text model
Digit(d) == CASE d = 0 -> "0" [] d = 1 -> "1" [] d = 2 -> "2" [] d = 3 -> "3"
              [] d = 4 -> "4" [] d = 5 -> "5" [] d = 6 -> "6" [] d = 7 -> "7"
              [] d = 8 -> "8" [] d = 9 -> "9"

RECURSIVE NatStr(_)
NatStr(n) == IF n < 10 THEN <<Digit(n)>> ELSE NatStr(n \div 10) \o <<Digit(n % 10)>>

\* str() of an int
IntStr(n) == IF n < 0 THEN <<"-">> \o NatStr(0 - n) ELSE NatStr(n)

\* repr() of a str inside a dict: quoted
Quoted(s) == <<"'">> \o s \o <<"'">>

RECURSIVE DictItems(_)
DictItems(kv) ==
    IF kv = <<>> THEN <<>>
    ELSE Quoted(kv[1][1]) \o <<":", " ">> \o Quoted(kv[1][2])
         \o (IF Len(kv) > 1 THEN <<",", " ">> ELSE <<>>) \o DictItems(Tail(kv))

\* str() of a dict of str to str
DictStr(kv) == <<"{">> \o DictItems(kv) \o <<"}">>

\* ---------------------------------------------------------- Python values
\* A value is a record tag/n/s/kv: None, an int, a str, a dict, or an
\* object whose __str__ raises.
Value(tag, n, s, kv) == [tag |-> tag, n |-> n, s |-> s, kv |-> kv]
None == Value("none", 0, <<>>, <<>>)
PyInt(n) == Value("int", n, <<>>, <<>>)
PyStr(s) == Value("str", 0, s, <<>>)
PyDict(kv) == Value("dict", 0, <<>>, kv)
BadObj == Value("bad", 0, <<>>, <<>>)

StrRaises(v) == v.tag = "bad"

\* str(obj)
Str(v) == CASE v.tag = "none" -> <<"N", "o", "n", "e">>
            [] v.tag = "int" -> IntStr(v.n)
            [] v.tag = "str" -> v.s
            [] v.tag = "dict" -> DictStr(v.kv)
            [] OTHER -> <<>>

\* template % arg for a template with one %s: the first "%s" is replaced
RECURSIVE Format(_, _)
Format(t, arg) ==
    IF t = <<>> THEN <<>>
    ELSE IF Len(t) >= 2 /\ t[1] = "%" /\ t[2] = "s" THEN arg \o SubSeq(t, 3, Len(t))
    ELSE <<t[1]>> \o Format(Tail(t), arg)

\* Python truthiness of a message argument (None and '' are falsy)
Truthy(v) == ~(v.tag = "none" \/ (v.tag = "str" /\ v.s = <<>>))

\* ------------------------------------------------------------ input sets
BuildDict == PyDict(<< <<<<"n", "a", "m", "e">>, <<"b", "u", "i", "l", "d">>>> >>)
ReasonDict == PyDict(<< <<<<"r", "e", "a", "s", "o", "n">>, <<"t", "i", "m", "e", "o", "u", "t">>>> >>)
Objs == {BuildDict, PyInt(10), BadObj}
Datas == {None, ReasonDict}
Statuses == {0, 1, 2}
Messages == {PyStr(<<"d", "i", "s", "k">>), PyStr(<<"n", "e", "t", NL>>)}
Prompts == {None, PyStr(<<"p", "w", ":">>)}
Typed == {<<"s", "3">>, <<" ", "x", " ">>}
\* the arguments of the report calls
ReportObjs == {BuildDict, BadObj}
ReportStatuses == {0, 1}

\* ------------------------------------------------- StatusConsoleFormatter
\* A status_colors mapping: its entries and, for a defaultdict, the value
\* of its default factory ("none": a plain dict).
Mapping(entries, factory) == [entries |-> entries, factory |-> factory]

\* collections.defaultdict(lambda: Color.red) with [0] = Color.green
DefaultMapping == Mapping((0 :> Green), Red)

\* mappings a caller may pass as status_colors
ExplicitMappings ==
    { Mapping((0 :> Blue), "none"),
      Mapping((0 :> Green) @@ (1 :> Yellow), "none"),
      Mapping((0 :> Blue), Yellow) }

\* the formatter a caller installs on the user interface
UIMappings == { Mapping((0 :> Blue) @@ (1 :> Yellow), "none") }

\* StatusConsoleFormatter.__init__(status_colors); given = FALSE is None
FormatterInit(given, status_colors) ==
    [status_colors |-> IF ~given THEN DefaultMapping ELSE status_colors]

\* GetItem with the miss cached under the failure colour instead of the
\* mapping's own default
GetItem_CachesRed(m, status) ==
    IF status \in DOMAIN m.entries
    THEN [exc |-> "none", color |-> m.entries[status], m |-> m]
    ELSE IF m.factory # "none"
    THEN [exc |-> "none", color |-> m.factory,
          m |-> Mapping(m.entries @@ (status :> Red), m.factory)]
    ELSE [exc |-> "KeyError", color |-> "none", m |-> m]

\* self.status_colors[status]: the mapping's __getitem__
GetItem(m, status) ==
    IF status \in DOMAIN m.entries
    THEN [exc |-> "none", color |-> m.entries[status], m |-> m]
    ELSE IF m.factory # "none"
    THEN [exc |-> "none", color |-> m.factory,
          m |-> Mapping(m.entries @@ (status :> m.factory), m.factory)]
    ELSE [exc |-> "KeyError", color |-> "none", m |-> m]

\* FormatterCall with the newline left out of the template
FormatterCall_NoNewline(f, obj, status, data) ==
    IF StrRaises(obj)
    THEN [exc |-> "StrError", pairs |-> <<>>, f |-> f]
    ELSE LET text == Format(<<"%", "s">>, Str(obj))
             g == GetItem(f.status_colors, status)
         IN IF g.exc # "none"
            THEN [exc |-> g.exc, pairs |-> <<>>, f |-> [status_colors |-> g.m]]
            ELSE [exc |-> "none",
                  pairs |-> << [text |-> text, color |-> g.color] >>,
                  f |-> [status_colors |-> g.m]]

\* StatusConsoleFormatter.__call__(obj, status, data): the result and the
\* formatter object after the call
FormatterCall(f, obj, status, data) ==
    IF StrRaises(obj)
    THEN [exc |-> "StrError", pairs |-> <<>>, f |-> f]
    ELSE LET text == Format(<<"%", "s", NL>>, Str(obj))
             g == GetItem(f.status_colors, status)
         IN IF g.exc # "none"
            THEN [exc |-> g.exc, pairs |-> <<>>, f |-> [status_colors |-> g.m]]
            ELSE [exc |-> "none",
                  pairs |-> << [text |-> text, color |-> g.color] >>,
                  f |-> [status_colors |-> g.m]]

\* ------------------------------------------------------------------ state
VARIABLES
    self,       \* __dict__ of the ConsoleUserInterface instance
    heap,       \* formatter objects by identity (1..Len(heap))
    defaults,   \* identities of the formatters constructed without a mapping
    console,    \* what cprint has written: <<[text, color], ...>>
    terminal,   \* reads made on the terminal: <<[fn, prompt, echo, returned], ...>>
    last,       \* the most recent call: its arguments and its outcome
    lastSet,    \* identity last passed to the formatter setter, 0 if none
    calls       \* number of calls made, per kind

vars == <<self, heap, defaults, console, terminal, last, lastSet, calls>>

ClassName == "ConsoleUserInterface"

\* private name mangling of an identifier __x written in the class body
Mangle(name) == "_" \o ClassName \o name

\* class attributes of ConsoleUserInterface: the property is a data
\* descriptor, the functions are non-data descriptors
Properties == {"formatter"}
Methods == {"__init__", "ask", "error", "report"}

\* hasattr(self, name): name is looked up as given
HasAttr(obj, name) == name \in Properties \/ name \in DOMAIN obj \/ name \in Methods

\* where obj.name is found: a property of the class wins over the instance
\* dictionary, which wins over a method of the class
Lookup(obj, name) ==
    IF name \in Properties THEN "property"
    ELSE IF name \in DOMAIN obj THEN "instance"
    ELSE IF name \in Methods THEN "method"
    ELSE "missing"

\* obj.name = value, for a name that is not a property
SetAttr(obj, name, value) == (name :> value) @@ obj

Configs == {"config"}

\* ConsoleUserInterface.__init__(config)
UIInit(config) == [config |-> config, report |-> <<>>]

NoCall ==
    [op |-> "none", exc |-> "none", fid |-> 0, ret |-> <<>>, pairs |-> <<>>,
     obj |-> None, status |-> 0, data |-> None, given |-> 0,
     message |-> None, password |-> FALSE]

Init ==
    /\ \E config \in Configs : self = UIInit(config)
    /\ heap = <<>>
    /\ defaults = {}
    /\ console = <<>>
    /\ terminal = <<>>
    /\ last = NoCall
    /\ lastSet = 0
    /\ calls = [ui |-> 0, report |-> 0, ask |-> 0, construct |-> 0, invoke |-> 0]

\* cprint(text, color) on the console
Cprint(out, text, color) == Append(out, [text |-> text, color |-> color])

\* ------------------------------------------------------ formatter objects
\* caller code: StatusConsoleFormatter() or StatusConsoleFormatter(mapping)
Construct(given, status_colors) ==
    /\ calls.construct < MaxFormatters
    /\ heap' = Append(heap, FormatterInit(given, status_colors))
    /\ defaults' = IF given THEN defaults ELSE defaults \cup {Len(heap) + 1}
    /\ last' = [NoCall EXCEPT !.op = "construct", !.fid = Len(heap) + 1,
                              !.given = IF given THEN 1 ELSE 0]
    /\ calls' = [calls EXCEPT !.construct = @ + 1]
    /\ UNCHANGED <<self, console, terminal, lastSet>>

\* caller code: f(obj, status, data) on a formatter object
Invoke(fid, obj, status, data) ==
    /\ calls.invoke < MaxInvokes
    /\ fid \in DOMAIN heap
    /\ LET r == FormatterCall(heap[fid], obj, status, data)
       IN /\ heap' = [heap EXCEPT ![fid] = r.f]
          /\ last' = [NoCall EXCEPT !.op = "invoke", !.exc = r.exc, !.fid = fid,
                                    !.pairs = r.pairs, !.obj = obj,
                                    !.status = status, !.data = data]
    /\ calls' = [calls EXCEPT !.invoke = @ + 1]
    /\ UNCHANGED <<self, defaults, console, terminal, lastSet>>

\* ------------------------------------------------- ConsoleUserInterface
\* the formatter property getter: the instance and the heap after the read,
\* and the identity returned
FormatterGetter(obj, h) ==
    IF ~HasAttr(obj, "__formatter")
    THEN LET fid == Len(h) + 1
         IN [self |-> SetAttr(obj, Mangle("__formatter"), fid),
             heap |-> Append(h, FormatterInit(FALSE, DefaultMapping)),
             fid |-> fid]
    ELSE [self |-> obj, heap |-> h, fid |-> obj[Mangle("__formatter")]]

\* the formatter property setter
FormatterSetter(obj, value) == SetAttr(obj, Mangle("__formatter"), value)

\* ui.formatter
FormatterGet ==
    /\ calls.ui < MaxCalls
    /\ LET g == FormatterGetter(self, heap)
       IN /\ self' = g.self
          /\ heap' = g.heap
          /\ defaults' = IF Len(g.heap) > Len(heap) THEN defaults \cup {g.fid} ELSE defaults
          /\ last' = [NoCall EXCEPT !.op = "get", !.fid = g.fid]
    /\ calls' = [calls EXCEPT !.ui = @ + 1]
    /\ UNCHANGED <<console, terminal, lastSet>>

\* ui.formatter = value
FormatterSet(fid) ==
    /\ calls.ui < MaxCalls
    /\ fid \in DOMAIN heap
    /\ self' = FormatterSetter(self, fid)
    /\ lastSet' = fid
    /\ last' = [NoCall EXCEPT !.op = "set", !.fid = fid]
    /\ calls' = [calls EXCEPT !.ui = @ + 1]
    /\ UNCHANGED <<heap, defaults, console, terminal>>

\* Ask without the return in the password branch: getpass reads, then
\* raw_input reads and its text is returned
Ask_FallsThrough(message, password, typed) ==
    /\ calls.ui < MaxCalls
    /\ LET prompt == IF Truthy(message) THEN message ELSE PyStr(<<>>)
           hidden == [fn |-> "getpass", prompt |-> prompt, echo |-> FALSE,
                      returned |-> typed]
           read == [fn |-> "raw_input", prompt |-> prompt, echo |-> TRUE,
                    returned |-> typed]
       IN /\ terminal' = IF password THEN terminal \o <<hidden, read>>
                         ELSE Append(terminal, read)
          /\ last' = [NoCall EXCEPT !.op = "ask", !.ret = read.returned,
                                    !.message = message, !.password = password]
    /\ calls' = [calls EXCEPT !.ui = @ + 1, !.ask = @ + 1]
    /\ UNCHANGED <<self, heap, defaults, console, lastSet>>

\* ui.ask(message, password); typed is what the terminal read returns
Ask(message, password, typed) ==
    /\ calls.ui < MaxCalls
    /\ LET prompt == IF Truthy(message) THEN message ELSE PyStr(<<>>)
           read == IF password
                   THEN [fn |-> "getpass", prompt |-> prompt, echo |-> FALSE,
                         returned |-> typed]
                   ELSE [fn |-> "raw_input", prompt |-> prompt, echo |-> TRUE,
                         returned |-> typed]
       IN /\ terminal' = Append(terminal, read)
          /\ last' = [NoCall EXCEPT !.op = "ask", !.ret = read.returned,
                                    !.message = message, !.password = password]
    /\ calls' = [calls EXCEPT !.ui = @ + 1, !.ask = @ + 1]
    /\ UNCHANGED <<self, heap, defaults, console, lastSet>>

\* ui.error(message)
Error(message) ==
    /\ calls.ui < MaxCalls
    /\ console' = Cprint(console, <<"E", "R", "R", "O", "R", ":", " ", "%", "s", NL>>, Red)
    /\ last' = [NoCall EXCEPT !.op = "error", !.message = message]
    /\ calls' = [calls EXCEPT !.ui = @ + 1]
    /\ UNCHANGED <<self, heap, defaults, terminal, lastSet>>

\* the loop of report: cprint of the first k pairs of a formatter result
RECURSIVE PrintPairs(_, _, _)
PrintPairs(out, pairs, k) ==
    IF k = 0 THEN out
    ELSE Cprint(PrintPairs(out, pairs, k - 1), pairs[k].text, pairs[k].color)

\* ui.report(obj): the attribute report of the instance is the list bound
\* in __init__, and calling a list raises TypeError
ReportCall(obj) ==
    /\ calls.ui < MaxCalls
    /\ Lookup(self, "report") = "instance"
    /\ last' = [NoCall EXCEPT !.op = "report", !.exc = "TypeError", !.obj = obj,
                              !.given = 1]
    /\ calls' = [calls EXCEPT !.ui = @ + 1, !.report = @ + 1]
    /\ UNCHANGED <<self, heap, defaults, console, terminal, lastSet>>

\* Report with the append moved behind the loop: a call that fails leaves
\* the log as it was
Report_LogsAfterPrint(obj, given, argStatus, argData, printed) ==
    /\ calls.ui < MaxCalls
    /\ LET status == IF given >= 2 THEN argStatus ELSE 0
           data == IF given >= 3 THEN argData ELSE None
           g == FormatterGetter(self, heap)
           r == FormatterCall(g.heap[g.fid], obj, status, data)
           failed == r.exc # "none" \/ printed < Len(r.pairs)
           logged == SetAttr(g.self, "report",
                             Append(self["report"],
                                    [object |-> obj, status |-> status, data |-> data]))
       IN /\ printed \in 0..Len(r.pairs)
          /\ self' = IF failed THEN g.self ELSE logged
          /\ heap' = [g.heap EXCEPT ![g.fid] = r.f]
          /\ defaults' = IF Len(g.heap) > Len(heap) THEN defaults \cup {g.fid} ELSE defaults
          /\ console' = PrintPairs(console, r.pairs, printed)
          /\ last' = [NoCall EXCEPT !.op = "report",
                                    !.exc = IF r.exc # "none" THEN r.exc
                                            ELSE IF printed < Len(r.pairs) THEN "IOError"
                                            ELSE "none",
                                    !.fid = g.fid, !.pairs = r.pairs, !.obj = obj,
                                    !.status = status, !.data = data, !.given = given]
    /\ calls' = [calls EXCEPT !.ui = @ + 1, !.report = @ + 1]
    /\ UNCHANGED <<terminal, lastSet>>

\* the body of ConsoleUserInterface.report, reached through the class:
\* ConsoleUserInterface.report(ui, obj[, status[, data]]).  given is the
\* number of arguments passed; printed is the number of pairs cprint wrote
\* before it failed (all of them when it did not fail).
Report(obj, given, argStatus, argData, printed) ==
    /\ calls.ui < MaxCalls
    /\ LET status == IF given >= 2 THEN argStatus ELSE 0
           data == IF given >= 3 THEN argData ELSE None
           logged == SetAttr(self, "report",
                             Append(self["report"],
                                    [object |-> obj, status |-> status, data |-> data]))
           g == FormatterGetter(logged, heap)
           r == FormatterCall(g.heap[g.fid], obj, status, data)
       IN /\ printed \in 0..Len(r.pairs)
          /\ self' = g.self
          /\ heap' = [g.heap EXCEPT ![g.fid] = r.f]
          /\ defaults' = IF Len(g.heap) > Len(heap) THEN defaults \cup {g.fid} ELSE defaults
          /\ console' = PrintPairs(console, r.pairs, printed)
          /\ last' = [NoCall EXCEPT !.op = "report",
                                    !.exc = IF r.exc # "none" THEN r.exc
                                            ELSE IF printed < Len(r.pairs) THEN "IOError"
                                            ELSE "none",
                                    !.fid = g.fid, !.pairs = r.pairs, !.obj = obj,
                                    !.status = status, !.data = data, !.given = given]
    /\ calls' = [calls EXCEPT !.ui = @ + 1, !.report = @ + 1]
    /\ UNCHANGED <<terminal, lastSet>>

\* ------------------------------------------------------- specifications
\* the ConsoleUserInterface instance and the code that calls it
Next ==
    \/ \E m \in UIMappings : Construct(TRUE, m)
    \/ FormatterGet
    \/ \E fid \in 1..MaxFormatters : FormatterSet(fid)
    \/ \E message \in Prompts, password \in BOOLEAN, typed \in Typed :
          Ask(message, password, typed)
    \/ \E message \in Messages : Error(message)
    \/ \E obj \in ReportObjs : ReportCall(obj)
    \/ \E obj \in ReportObjs, printed \in 0..1 : Report(obj, 1, 0, None, printed)
    \/ \E obj \in ReportObjs, status \in ReportStatuses, printed \in 0..1 :
          Report(obj, 2, status, None, printed)
    \/ \E obj \in ReportObjs, status \in ReportStatuses, data \in Datas, printed \in 0..1 :
          Report(obj, 3, status, data, printed)

Spec == Init /\ [][Next]_vars

\* StatusConsoleFormatter objects on their own
NextFormatter ==
    \/ \E m \in ExplicitMappings : Construct(TRUE, m)
    \/ Construct(FALSE, DefaultMapping)
    \/ \E fid \in 1..MaxFormatters, obj \in Objs, status \in Statuses, data \in Datas :
          Invoke(fid, obj, status, data)

SpecFormatter == Init /\ [][NextFormatter]_vars

\* ------------------------------------------------------------ properties
Contains(t, sub) ==
    \E i \in 0..(Len(t) - Len(sub)) : SubSeq(t, i + 1, i + Len(sub)) = sub

EndsWith(t, c) == Len(t) > 0 /\ t[Len(t)] = c

ReportLog == self["report"]

ReportRecord(c) == [object |-> c.obj, status |-> c.status, data |-> c.data]

\* C1: after the N-th report call on the instance the report log has N
\* records, and the record of the latest call holds its arguments, with
\* status 0 and data None where they were omitted.
C1_LogHoldsEveryReport ==
    /\ Len(ReportLog) = calls.report
    /\ last.op = "report" =>
          /\ ReportLog[Len(ReportLog)] = ReportRecord(last)
          /\ last.given < 2 => last.status = 0
          /\ last.given < 3 => last.data = None

\* C2: once the setter was called with F, a read of the formatter property
\* returns F.
C2_GetReturnsLastSet ==
    (last.op = "get" /\ lastSet # 0) => last.fid = lastSet

\* C3: a report whose body runs invokes the formatter most recently set (the
\* property's default when none was set) and prints the pairs that formatter
\* returns for (obj, status, data).
C3_ReportUsesSetFormatter ==
    (last.op = "report" /\ last.exc # "TypeError" /\ lastSet # 0) =>
        /\ last.fid = lastSet
        /\ last.pairs = FormatterCall(heap[lastSet], last.obj, last.status, last.data).pairs

\* C4: a formatter constructed without a mapping returns exactly one pair,
\* str(obj) followed by one newline, green for status 0 and red for every
\* other status, whatever data is.
C4_DefaultFormatterResult ==
    (last.op = "invoke" /\ last.fid \in defaults /\ ~StrRaises(last.obj)) =>
        /\ last.exc = "none"
        /\ last.pairs = << [text |-> Str(last.obj) \o <<NL>>,
                            color |-> IF last.status = 0 THEN Green ELSE Red] >>

C4_Witness ==
    /\ last.op = "invoke"
    /\ last.fid \in defaults
    /\ last.status = 2
    /\ last.data = ReasonDict
    /\ last.obj = BuildDict
    /\ calls.invoke = 2

\* C5: invoking a formatter constructed with an explicit mapping does not
\* raise, also for a status that is not a key of the mapping, and returns
\* one pair.
C5_ExplicitMappingNeverRaises ==
    (last.op = "invoke" /\ last.fid \notin defaults /\ ~StrRaises(last.obj)) =>
        /\ last.exc = "none"
        /\ Len(last.pairs) = 1

\* C6: error(message) writes one line to the console that contains message,
\* is red and ends with a newline.
C6_ErrorShowsMessage ==
    last.op = "error" =>
        /\ Len(console) > 0
        /\ console[Len(console)].color = Red
        /\ EndsWith(console[Len(console)].text, NL)
        /\ Contains(console[Len(console)].text, last.message.s)

\* C7: every ask makes exactly one terminal read, getpass (no echo) when
\* password is true and raw_input otherwise, with message as the prompt
\* ('' when message is None), and returns what the read returned.
C7_AskReadsOnce ==
    /\ Len(terminal) = calls.ask
    /\ last.op = "ask" =>
          LET read == terminal[Len(terminal)]
          IN /\ read.fn = (IF last.password THEN "getpass" ELSE "raw_input")
             /\ read.echo = ~last.password
             /\ read.prompt = (IF last.message = None THEN PyStr(<<>>) ELSE last.message)
             /\ read.prompt # None
             /\ last.ret = read.returned

C7_Witness ==
    /\ last.op = "ask"
    /\ last.password
    /\ last.message = None
    /\ last.ret = <<" ", "x", " ">>
    /\ Len(terminal) = 2
    /\ terminal[1].fn = "raw_input"

\* C8: while the formatter was never set, two reads of the formatter
\* property in a row return the same formatter object.
C8_DefaultFormatterIsStable ==
    [][(lastSet = 0 /\ last.op = "get" /\ last'.op = "get") => last'.fid = last.fid]_vars

InvokeStep == calls'.invoke = calls.invoke + 1

\* C9 as stated: an invocation leaves the status_colors mapping of every
\* formatter as it was.
C9_InvokeLeavesMappingUnchanged ==
    [][InvokeStep => heap' = heap]_vars

\* C9 as amended: an invocation changes or removes no entry and no default
\* of any mapping; the only change is, in the invoked formatter when its
\* mapping has a default factory, a new entry for the status of the call,
\* holding the default colour.
C9_InvokeOnlyAddsDefaultEntry ==
    [][InvokeStep =>
        /\ DOMAIN heap' = DOMAIN heap
        /\ \A fid \in DOMAIN heap :
              LET old == heap[fid].status_colors
                  new == heap'[fid].status_colors
              IN /\ new.factory = old.factory
                 /\ DOMAIN old.entries \subseteq DOMAIN new.entries
                 /\ \A k \in DOMAIN old.entries : new.entries[k] = old.entries[k]
                 /\ \A k \in DOMAIN new.entries \ DOMAIN old.entries :
                       /\ fid = last'.fid
                       /\ k = last'.status
                       /\ old.factory # "none"
                       /\ new.entries[k] = old.factory]_vars

C9_Witness ==
    /\ last.op = "invoke"
    /\ last.fid \in defaults
    /\ last.status = 2
    /\ DOMAIN heap[last.fid].status_colors.entries = {0, 1, 2}

\* C10: when the formatter or cprint fails during report, the exception
\* reaches the caller and the record of the call is the new last record of
\* the report log.
C10_FailedReportIsLogged ==
    [][(last'.op = "report" /\ calls'.report = calls.report + 1
          /\ last'.exc \in {"StrError", "KeyError", "IOError"}) =>
        /\ ReportLog' = Append(ReportLog, ReportRecord(last'))
        /\ Len(console') <= Len(console) + Len(last'.pairs)]_vars

C10_Witness ==
    /\ last.op = "report"
    /\ last.exc = "IOError"
    /\ Len(ReportLog) = 2
    /\ ReportLog[2] = [object |-> BuildDict, status |-> 1, data |-> ReasonDict]
    /\ ReportLog[1].object = BadObj

====
